---- MODULE Spec2Model ----
(***************************************************************************)
(* State-machine model of the LAS viewer of QTPipeline.                    *)
(*                                                                         *)
(*   Spec        the multi-selection viewer, src/QTPipeline.py             *)
(*   SpecIngest  the folder ingestor load_las_files_from_folder in its     *)
(*               three variants, applied to a directory listing            *)
(*                                                                         *)
(* Python indexes are kept 0-based: las_data[i] of the code is             *)
(* s.las_data.list[i + 1] here.  Each Qt handler is one action; the Qt     *)
(* signal itemSelectionChanged is delivered synchronously inside the       *)
(* handler that changes the selection, as Qt does for direct connections.  *)
(* A modal message box in the middle of a handler is a state of its own:   *)
(* the handler waits in it and no other handler starts meanwhile.          *)
(***************************************************************************)
EXTENDS Integers, Sequences, FiniteSets, TLC

\* ---------------------------------------------------------------- bounds
\* Greatest of the small heights, in thousandths, given to SpecScale.
MaxHeight == 9
\* Most points of a LAS file whose contents are enumerated (SpecLoad).
MaxPoints == 3
\* Longest file path, in words, that is enumerated (SpecDetect).
MaxPathLen == 5
\* Longest directory listing that is enumerated exhaustively (SpecIngest).
MaxDirLen == 3
\* Most files in a folder the operator opens in the viewer (Spec), besides
\* the folder above the ceiling.
MaxFiles == 3

\* ------------------------------------------------------ program constants
FILE_LIMIT == 100
SCALING_FACTOR == 100000

\* Python floats are modelled in fixed point.  A coordinate of a point is a
\* whole number of units of 10^-8, so that SCALING_FACTOR times a coordinate
\* is a whole number of thousandths: a thousandth is this many units.
UNITS_PER_THOUSANDTH == 100000
\* Thousandths in one tenth, the last digit "{:.1f}" prints.
THOUSANDTHS_PER_TENTH == 100

\* Python's None for an object reference (point cloud, actor).
None == 0

\* ------------------------------------------------------------ directories
\* A directory entry: its name (which is also its path once joined with the
\* folder) and what the file is: a readable .las file, a .las file that
\* laspy cannot read or that has no points, or a file without the .las
\* extension.
Kinds == {"las_ok", "las_bad", "other"}

Entry(n, k) == [name |-> n, kind |-> k]

Range(f) == {f[i] : i \in DOMAIN f}

DistinctNames(d) == \A i, j \in DOMAIN d : i # j => d[i].name # d[j].name

\* Every listing of at most MaxDirLen entries, in every enumeration order.
SmallDirs ==
    UNION {{d \in [1..k -> {Entry(n, kd) : n \in 1..MaxDirLen, kd \in Kinds}] :
               DistinctNames(d)} : k \in 0..MaxDirLen}

\* A listing of n .las files of which only the first two are readable,
\* followed by extra entries without the .las extension.
BigDir(n, extra) ==
    [i \in 1..(n + extra) |->
        IF i <= n THEN Entry(i, IF i <= 2 THEN "las_ok" ELSE "las_bad")
                  ELSE Entry(i, "other")]

BigDirs == {BigDir(FILE_LIMIT, 0), BigDir(FILE_LIMIT, 1),
            BigDir(FILE_LIMIT + 1, 0)}

Dirs == SmallDirs \cup BigDirs

\* The folders opened in the viewer: .las files 1..k of which the first b
\* are unreadable, and a folder of FILE_LIMIT + 1 .las files.
ViewerDirs ==
    {[i \in 1..k |-> IF i <= b THEN "las_bad" ELSE "las_ok"] :
        k \in 0..MaxFiles, b \in 0..MaxFiles}

ViewerDir(kinds) == [i \in DOMAIN kinds |-> Entry(i, kinds[i])]

ViewerFolders ==
    {ViewerDir(kinds) : kinds \in ViewerDirs}
        \cup {BigDir(FILE_LIMIT + 1, 0)}

\* ------------------------------------------------- contents of LAS files
\* Exact fractions stand for the floats of the colour arithmetic: num / den
\* in lowest terms with den > 0; den = 0 is the nan (or inf) numpy yields
\* for a division by zero.
RECURSIVE GCD(_, _)
GCD(a, b) == IF b = 0 THEN a ELSE GCD(b, a % b)

Frac(n, d) ==
    IF d = 0 THEN [num |-> 0, den |-> 0]
    ELSE LET an == IF n < 0 THEN -n ELSE n
             ad == IF d < 0 THEN -d ELSE d
             g  == GCD(an, ad)
             sg == IF d < 0 THEN -1 ELSE 1
         IN [num |-> sg * (n \div g), den |-> ad \div g]

IsNumber(a) == a.den # 0
FracAdd(a, b) ==
    IF IsNumber(a) /\ IsNumber(b)
    THEN Frac(a.num * b.den + b.num * a.den, a.den * b.den) ELSE Frac(0, 0)
FracSub(a, b) ==
    IF IsNumber(a) /\ IsNumber(b)
    THEN Frac(a.num * b.den - b.num * a.den, a.den * b.den) ELSE Frac(0, 0)
FracMul(a, b) ==
    IF IsNumber(a) /\ IsNumber(b)
    THEN Frac(a.num * b.num, a.den * b.den) ELSE Frac(0, 0)
FracDiv(a, b) ==
    IF IsNumber(a) /\ IsNumber(b)
    THEN Frac(a.num * b.den, a.den * b.num) ELSE Frac(0, 0)
FracLeq(a, b) == a.num * b.den <= b.num * a.den

\* The values the red, the green and the blue of a point take, and the
\* heights Z * scale + offset of a point, in thousandths (0.0 and 5.0).
ChannelValues == <<{0, 100, 255}, {0, 100, 255}, {0, 255}>>
ZValues == {0, 5000}

\* What laspy.read finds in a file: it fails (readable = FALSE), or yields
\* the heights of the points and, when the point format has colour, their
\* red, green and blue.  X and Y pass through load_las_file unchanged and
\* are left out.
LasFile(readable, Z, rgb, red, green, blue) ==
    [readable |-> readable, Z |-> Z, rgb |-> rgb,
     red |-> red, green |-> green, blue |-> blue]

\* The files given to the loader: an unreadable one, the files without
\* colour of at most MaxPoints points, and the files with colour of at most
\* MaxPoints points, all at height 0.
IsLasFile(f) ==
    \/ f = LasFile(FALSE, <<>>, FALSE, <<>>, <<>>, <<>>)
    \/ \E n \in 0..MaxPoints :
          \E Z \in [1..n -> ZValues] :
             f = LasFile(TRUE, Z, FALSE, <<>>, <<>>, <<>>)
    \/ \E n \in 0..MaxPoints :
          \E r \in [1..n -> ChannelValues[1]] :
             \E g \in [1..n -> ChannelValues[2]] :
                \E b \in [1..n -> ChannelValues[3]] :
                   f = LasFile(TRUE, [i \in 1..n |-> 0], TRUE, r, g, b)

\* The point cloud of a failed load, and the failed load (None, False).
NoCloud == [points |-> <<>>, arrays |-> {}, Colors |-> <<>>, Elevation |-> <<>>]
LoadFailed == [none |-> TRUE, point_cloud |-> NoCloud, has_rgb |-> FALSE]

\* points[:, 2] /= SCALING_FACTOR: a height in thousandths becomes a
\* coordinate in units.
scaled_z(z, scaling_factor) == (z * UNITS_PER_THOUSANDTH) \div scaling_factor

\* np.vstack((las_file.red, las_file.green, las_file.blue)).transpose() / 255.0
colors_of(las_file) ==
    [i \in DOMAIN las_file.red |->
        <<Frac(las_file.red[i], 255), Frac(las_file.green[i], 255),
          Frac(las_file.blue[i], 255)>>]

FracMin(S) == CHOOSE x \in S : \A y \in S : FracLeq(x, y)
FracMax(S) == CHOOSE x \in S : \A y \in S : FracLeq(y, x)

\* Variant of colors.min without axis=0: the least value of all channels.
min_val_of_all(colors, ch) ==
    FracMin({colors[i][c] : i \in DOMAIN colors, c \in 1..3})

\* colors.min(axis=0)[ch] and colors.max(axis=0)[ch]
min_val(colors, ch) == FracMin({colors[i][ch] : i \in DOMAIN colors})
max_val(colors, ch) == FracMax({colors[i][ch] : i \in DOMAIN colors})

\* 0.2 + (colors - min_val) / (max_val - min_val) * 0.6
adjusted_colors(colors) ==
    LET lo    == [ch \in 1..3 |-> min_val(colors, ch)]
        range == [ch \in 1..3 |-> FracSub(max_val(colors, ch), lo[ch])]
    IN [i \in DOMAIN colors |->
          [ch \in 1..3 |->
              FracAdd(Frac(2, 10),
                      FracMul(FracDiv(FracSub(colors[i][ch], lo[ch]),
                                      range[ch]),
                              Frac(6, 10)))]]

\* Variant of the test for an empty file that never finds one.
no_points_never(points) == FALSE

\* points.size == 0
no_points(points) == Len(points) = 0

\* load_las_file of QTPipeline.py on the contents of a file.
load_las_file_data(las_file) ==
    IF ~las_file.readable THEN LoadFailed
    ELSE LET points == [i \in DOMAIN las_file.Z |->
                           scaled_z(las_file.Z[i], SCALING_FACTOR)]
         IN IF no_points(points) THEN LoadFailed
            ELSE IF las_file.rgb
            THEN [none |-> FALSE,
                  point_cloud |-> [points |-> points, arrays |-> {"Colors"},
                                   Colors |-> adjusted_colors(colors_of(las_file)),
                                   Elevation |-> <<>>],
                  has_rgb |-> TRUE]
            ELSE [none |-> FALSE,
                  point_cloud |-> [points |-> points, arrays |-> {"Elevation"},
                                   Colors |-> <<>>, Elevation |-> points],
                  has_rgb |-> FALSE]

\* load_las_file of qt-pipeline/qt-pipeline/main.py on the contents of a file.
load_las_file_data_v2(las_file) ==
    IF ~las_file.readable THEN LoadFailed
    ELSE LET points == [i \in DOMAIN las_file.Z |->
                           scaled_z(las_file.Z[i], SCALING_FACTOR)]
         IN IF Len(points) = 0 THEN LoadFailed
            ELSE IF las_file.rgb
            THEN [none |-> FALSE,
                  point_cloud |-> [points |-> points, arrays |-> {"Colors"},
                                   Colors |-> adjusted_colors(colors_of(las_file)),
                                   Elevation |-> <<>>],
                  has_rgb |-> TRUE]
            ELSE [none |-> FALSE,
                  point_cloud |-> [points |-> points, arrays |-> {"Elevation"},
                                   Colors |-> <<>>, Elevation |-> points],
                  has_rgb |-> FALSE]

\* ------------------------------------------------------------ file paths
\* A path is a sequence of words; "Detection_", ".las" and the separator "/"
\* are words of their own, the other words hold none of them.
PathWords == {"/", "Detection_", ".las", "42", "run"}

\* os.path.join(folder_path, f) for an f that ends with ".las": the words
\* after the last separator are the file's name.
Paths ==
    UNION {{w \in [1..n -> PathWords] :
               w[n] = ".las" /\ \E i \in 1..(n - 1) : w[i] = "/"} :
           n \in 2..MaxPathLen}

\* str.split(sep) for a separator of one word: the pieces between the
\* occurrences of sep, in order.
RECURSIVE split(_, _)
split(text, sep) ==
    IF \A i \in DOMAIN text : text[i] # sep THEN <<text>>
    ELSE LET i == CHOOSE k \in DOMAIN text :
                      text[k] = sep /\ \A j \in 1..(k - 1) : text[j] # sep
         IN <<SubSeq(text, 1, i - 1)>>
                \o split(SubSeq(text, i + 1, Len(text)), sep)

\* os.path.basename
basename(path) ==
    IF \A i \in DOMAIN path : path[i] # "/" THEN path
    ELSE LET i == CHOOSE k \in DOMAIN path :
                      path[k] = "/" /\ \A j \in (k + 1)..Len(path) : path[j] # "/"
         IN SubSeq(path, i + 1, Len(path))

\* The outcome of an extraction: ok is FALSE when an IndexError was raised.
NoId == [ok |-> FALSE, id |-> <<>>]

\* file_name.split("Detection_")[1].split(".las")[0] of copy_detection_id,
\* file_name being the path kept in las_data.
detection_id(file_name) ==
    LET parts == split(file_name, "Detection_")
    IN IF Len(parts) < 2 THEN NoId
       ELSE [ok |-> TRUE, id |-> split(parts[2], ".las")[1]]

\* The same statement of qt-pipeline/qt-pipeline/main.py.
detection_id_v2(file_name) ==
    LET parts == split(file_name, "Detection_")
    IN IF Len(parts) < 2 THEN NoId
       ELSE [ok |-> TRUE, id |-> split(parts[2], ".las")[1]]

\* qt-pipeline/main.py splits os.path.basename(file_path).
detection_id_v1(file_path) ==
    LET file_name == basename(file_path)
        parts     == split(file_name, "Detection_")
    IN IF Len(parts) < 2 THEN NoId
       ELSE [ok |-> TRUE, id |-> split(parts[2], ".las")[1]]

\* The path of file n of a folder opened in the viewer: the folder is
\* "run", file 2 has no "Detection_" in its name.
path_of(n) ==
    IF n = 2 THEN <<"run", "/", "42", ".las">>
    ELSE <<"run", "/", "Detection_", ToString(n), ".las">>

\* The coordinate n.0 in units.
Whole(n) == n * 1000 * UNITS_PER_THOUSANDTH

\* The points the rendering surface can report as picked: (0, 0, 0),
\* (0, 0, 5) and (1, 2, 0.00000123).
PickPoints == {<<0, 0, 0>>, <<0, 0, Whole(5)>>, <<Whole(1), Whole(2), 123>>}

\* ------------------------------------------------------------ cloud loader
\* load_las_file as the ingestor and the viewer see it: (point_cloud,
\* has_rgb), or (None, False) on any exception.  An entry is of kind "las_ok"
\* when load_las_file_data succeeds on its contents; the cloud is named by
\* the entry.
load_las_file(e) ==
    IF e.kind = "las_ok"
    THEN [point_cloud |-> e.name, has_rgb |-> FALSE]
    ELSE [point_cloud |-> None, has_rgb |-> FALSE]

\* f.endswith('.las')
endswith_las(e) == e.kind # "other"

\* [... for f in os.listdir(folder_path) if f.endswith('.las')]
las_files_of(dir) == SelectSeq(dir, endswith_las)

\* ---------------------------------------------------------- folder ingestor
\* Variant of the iteration without the "is not None" filter.
load_one_unfiltered(file) ==
    [list  |-> <<[file |-> file.name, result |-> load_las_file(file)]>>,
     calls |-> <<file.name>>]

\* One iteration of the list comprehension of load_las_files_from_folder:
\* load_las_file is invoked on the candidate, which contributes an element
\* to the list when the point cloud is not None.
load_one(file) ==
    LET result == load_las_file(file)
    IN [list  |-> IF result.point_cloud # None
                  THEN <<[file |-> file.name, result |-> result]>>
                  ELSE <<>>,
        calls |-> <<file.name>>]

\* The comprehension over the candidates lo..hi, in order: list is the list
\* it builds, calls the paths on which load_las_file was invoked.  (The range
\* is halved rather than walked to keep the evaluation shallow.)
RECURSIVE load_each(_, _, _)
load_each(files, lo, hi) ==
    IF lo > hi THEN [list |-> <<>>, calls |-> <<>>]
    ELSE IF lo = hi THEN load_one(files[lo])
    ELSE LET mid   == (lo + hi) \div 2
             left  == load_each(files, lo, mid)
             right == load_each(files, mid + 1, hi)
         IN [list  |-> left.list \o right.list,
             calls |-> left.calls \o right.calls]

\* Variant of the ceiling test that also rejects FILE_LIMIT candidates.
too_many_files_ge(las_files) == Len(las_files) >= FILE_LIMIT

\* The ceiling test of load_las_files_from_folder.
too_many_files(las_files) == Len(las_files) > FILE_LIMIT

\* load_las_files_from_folder: none = TRUE stands for the None it returns
\* after the "Too Many Files" message.
load_las_files_from_folder(dir) ==
    LET las_files == las_files_of(dir)
    IN IF too_many_files(las_files)
       THEN [none |-> TRUE, list |-> <<>>, calls |-> <<>>,
             message |-> <<"Too Many Files">>]
       ELSE LET r == load_each(las_files, 1, Len(las_files))
            IN [none |-> FALSE, list |-> r.list, calls |-> r.calls,
                message |-> <<>>]

\* load_las_file of qt-pipeline/qt-pipeline/main.py
load_las_file_v2(e) ==
    IF e.kind = "las_ok"
    THEN [point_cloud |-> e.name, has_rgb |-> FALSE]
    ELSE [point_cloud |-> None, has_rgb |-> FALSE]

\* One iteration of the comprehension of qt-pipeline/qt-pipeline/main.py:
\* the condition invokes load_las_file, and the element expression invokes
\* it again when the condition held.
load_one_v2(file) ==
    IF load_las_file_v2(file).point_cloud # None
    THEN [list  |-> <<[file |-> file.name, result |-> load_las_file_v2(file)]>>,
          calls |-> <<file.name, file.name>>]
    ELSE [list |-> <<>>, calls |-> <<file.name>>]

RECURSIVE load_each_v2(_, _, _)
load_each_v2(files, lo, hi) ==
    IF lo > hi THEN [list |-> <<>>, calls |-> <<>>]
    ELSE IF lo = hi THEN load_one_v2(files[lo])
    ELSE LET mid   == (lo + hi) \div 2
             left  == load_each_v2(files, lo, mid)
             right == load_each_v2(files, mid + 1, hi)
         IN [list  |-> left.list \o right.list,
             calls |-> left.calls \o right.calls]

\* load_las_files_from_folder of qt-pipeline/qt-pipeline/main.py
load_las_files_from_folder_v2(dir) ==
    LET las_files == las_files_of(dir)
        r == load_each_v2(las_files, 1, Len(las_files))
    IN [none |-> FALSE, list |-> r.list, calls |-> r.calls, message |-> <<>>]

\* load_las_file of qt-pipeline/main.py
load_las_file_v1(e) ==
    IF e.kind = "las_ok"
    THEN [point_cloud |-> e.name, has_rgb |-> FALSE]
    ELSE [point_cloud |-> None, has_rgb |-> FALSE]

\* data = [(file, load_las_file(file)) for file in las_files]
RECURSIVE load_all_v1(_, _, _)
load_all_v1(files, lo, hi) ==
    IF lo > hi THEN [list |-> <<>>, calls |-> <<>>]
    ELSE IF lo = hi
         THEN [list  |-> <<[file |-> files[lo].name,
                            result |-> load_las_file_v1(files[lo])]>>,
               calls |-> <<files[lo].name>>]
    ELSE LET mid   == (lo + hi) \div 2
             left  == load_all_v1(files, lo, mid)
             right == load_all_v1(files, mid + 1, hi)
         IN [list  |-> left.list \o right.list,
             calls |-> left.calls \o right.calls]

loaded_v1(d) == d.result.point_cloud # None

\* load_las_files_from_folder of qt-pipeline/main.py
load_las_files_from_folder_v1(dir) ==
    LET las_files == las_files_of(dir)
        data == load_all_v1(las_files, 1, Len(las_files))
    IN [none |-> FALSE, list |-> SelectSeq(data.list, loaded_v1),
        calls |-> data.calls, message |-> <<>>]

\* ------------------------------------------------------------------ state
VARIABLES
    las_data,          \* self.las_data: [none, list]; none = TRUE is Python's None
    visible_files,     \* self.visible_files: set of file paths
    selected_points,   \* self.selected_points: the pending picks
    last_drawn_line,   \* self.last_drawn_line: None or a line actor
    items,             \* las_file_list: the file paths behind the rows
    selected,          \* las_file_list: the selected rows (0-based)
    currentRow,        \* las_file_list.currentRow(), -1 when there is none
    meshes,            \* plotter: the files whose clouds are on the surface
    lines,             \* plotter: the line actors on the surface
    crashed,           \* a handler raised an exception nothing catches
    report,            \* titles of the message boxes the last handler showed
    z_distance,        \* z_distance of the last handler, in thousandths; -1
                       \* if it computed none
    z_shown,           \* the number its "Z-Distance" box printed, in tenths
    pc,                \* "idle", or "z_box" while on_point_picked waits in
                       \* its modal "Z-Distance" box
    picks,             \* the number of picks so far, modulo 2
    clipboard,         \* what the last handler wrote to the clipboard
    exported,          \* the file of the record it derived an export from,
                       \* None if it derived none
    released,          \* the last handler took a line off the surface
    ingest,            \* the folder load of the last handler: its outcome
                       \* and the list the ingestor returned
    lastOp,            \* the last handler that ran
    navTrail,          \* the latest run of navigation handlers, at most the
                       \* last two: which one, and visible_files at its start
    ing_dir,           \* SpecIngest: the directory listing
    ing_variant,       \* SpecIngest: the ingestor that ran, "" before
    ing_out,           \* SpecIngest: what it returned and the loads it made
    det_path,          \* SpecDetect: the path given to the extraction
    det_variant,       \* SpecDetect: the variant applied, "" before
    det_out,           \* SpecDetect: what it returned
    ld_file,           \* SpecLoad: the contents of the file given to the loader
    ld_variant,        \* SpecLoad: the variant applied, "" before
    ld_out,            \* SpecLoad: what it returned
    sc_z,              \* SpecScale: the heights Z * scale + offset of two
                       \* points of a file, in thousandths
    sc_done,           \* SpecScale: the two points were loaded and picked
    sc_distance,       \* SpecScale: z_distance of the handler, in thousandths
    sc_shown,          \* SpecScale: the number its box printed, in tenths
    ix_variant,        \* current-index viewers: "v1" is qt-pipeline/main.py,
                       \* "v2" qt-pipeline/qt-pipeline/main.py, "" is none
    ix_las_data,       \* their self.las_data
    ix_current_index,  \* their self.current_index
    ix_rows,           \* the rows of the list widget of v2
    ix_shown,          \* the file update_plot rendered last, None before
    ix_running,        \* FALSE once sys.exit() was called
    ix_crashed,        \* TRUE once a handler ended with an exception
    ix_report,         \* the message boxes of their last handler
    ix_op,             \* their last handler
    ix_before          \* len(las_data) and current_index it started from

vars == <<las_data, visible_files, selected_points, last_drawn_line, items,
          selected, currentRow, meshes, lines, crashed, report, z_distance,
          z_shown, pc, picks, clipboard, exported, released, ingest, lastOp,
          navTrail, ing_dir, ing_variant, ing_out, det_path, det_variant,
          det_out, ld_file, ld_variant, ld_out, sc_z, sc_done, sc_distance,
          sc_shown, ix_variant, ix_las_data, ix_current_index, ix_rows,
          ix_shown, ix_running, ix_crashed, ix_report, ix_op, ix_before>>

ingestVars == <<ing_dir, ing_variant, ing_out>>

detectVars == <<det_path, det_variant, det_out>>

loaderVars == <<ld_file, ld_variant, ld_out>>

scaleVars == <<sc_z, sc_done, sc_distance, sc_shown>>

indexVars == <<ix_variant, ix_las_data, ix_current_index, ix_rows, ix_shown,
               ix_running, ix_crashed, ix_report, ix_op, ix_before>>

viewerVars == <<las_data, visible_files, selected_points, last_drawn_line,
                items, selected, currentRow, meshes, lines, crashed, report,
                z_distance, z_shown, pc, picks, clipboard, exported, released,
                ingest, lastOp, navTrail>>

NoClip == [written |-> FALSE, text |-> <<>>]

NoOut == [none |-> FALSE, list |-> <<>>, calls |-> <<>>, message |-> <<>>]

NoIngest == [outcome |-> "", list |-> <<>>]

\* The viewer's state as one record, so that a handler and the handlers it
\* calls can be written as functions from state to state.
Cur ==
    [las_data |-> las_data, visible_files |-> visible_files,
     selected_points |-> selected_points, last_drawn_line |-> last_drawn_line,
     items |-> items, selected |-> selected, currentRow |-> currentRow,
     meshes |-> meshes, lines |-> lines, crashed |-> crashed,
     report |-> <<>>, z_distance |-> -1, z_shown |-> -1, pc |-> pc,
     clipboard |-> NoClip, exported |-> None,
     released |-> FALSE, ingest |-> NoIngest]

Becomes(s) ==
    /\ las_data' = s.las_data
    /\ visible_files' = s.visible_files
    /\ selected_points' = s.selected_points
    /\ last_drawn_line' = s.last_drawn_line
    /\ items' = s.items
    /\ selected' = s.selected
    /\ currentRow' = s.currentRow
    /\ meshes' = s.meshes
    /\ lines' = s.lines
    /\ crashed' = s.crashed
    /\ report' = s.report
    /\ z_distance' = s.z_distance
    /\ z_shown' = s.z_shown
    /\ pc' = s.pc
    /\ clipboard' = s.clipboard
    /\ exported' = s.exported
    /\ released' = s.released
    /\ ingest' = s.ingest

Max(S) == CHOOSE x \in S : \A y \in S : y <= x
Min(S) == CHOOSE x \in S : \A y \in S : x <= y
Abs(x) == IF x < 0 THEN -x ELSE x

\* n / d for n >= 0 and d > 0, rounded to the nearest whole number, a tie
\* to the even one: what round() and "{:.1f}" do to a decimal value.
RoundHalfEven(n, d) ==
    LET q == n \div d
        r == n % d
    IN IF 2 * r < d THEN q
       ELSE IF 2 * r > d THEN q + 1
       ELSE IF q % 2 = 0 THEN q ELSE q + 1

\* An uncaught exception ends the handler (and, with PyQt5, the program).
Raise(s) == [s EXCEPT !.crashed = TRUE]

\* QMessageBox.warning / critical / information
MessageBox(s, title) == [s EXCEPT !.report = Append(@, title)]

\* The file paths of a las_data list.
Files(list) == {list[i].file : i \in DOMAIN list}

\* ------------------------------------------------------------ LASViewer
\* update_plot: plotter.clear() drops every actor, the measurement line
\* included; then one mesh per visible file that is found in las_data.
\* enumerate(self.las_data) raises TypeError when las_data is None.
update_plot(s) ==
    IF s.crashed THEN s
    ELSE LET cleared == [s EXCEPT !.meshes = {}, !.lines = {}]
         IN IF s.visible_files = {} THEN cleared
            ELSE IF s.las_data.none THEN Raise(cleared)
            ELSE [cleared EXCEPT
                    !.meshes = s.visible_files \cap Files(s.las_data.list)]

\* The set comprehension of toggle_file_visibility: self.las_data[row][0] for
\* every selected row.
files_of_rows(list, rows) == {list[r + 1].file : r \in rows}

\* Variant of toggle_file_visibility that also drops the points picked so
\* far.
toggle_file_visibility_dropping_picks(s) ==
    IF s.crashed THEN s
    ELSE IF s.selected = {}
         THEN update_plot([s EXCEPT !.visible_files = {},
                                    !.selected_points = <<>>])
    ELSE IF s.las_data.none \/ \E r \in s.selected : r >= Len(s.las_data.list)
         THEN Raise(s)
    ELSE update_plot([s EXCEPT
            !.visible_files = files_of_rows(s.las_data.list, s.selected),
            !.selected_points = <<>>])

\* toggle_file_visibility, the slot of itemSelectionChanged.  Indexing None
\* raises TypeError, a row past the end of las_data raises IndexError.
toggle_file_visibility(s) ==
    IF s.crashed THEN s
    ELSE IF s.selected = {} THEN update_plot([s EXCEPT !.visible_files = {}])
    ELSE IF s.las_data.none \/ \E r \in s.selected : r >= Len(s.las_data.list)
         THEN Raise(s)
    ELSE update_plot([s EXCEPT
            !.visible_files = files_of_rows(s.las_data.list, s.selected)])

\* las_file_list.clearSelection(): emits itemSelectionChanged when the
\* selection was not empty.
list_clearSelection(s) ==
    IF s.crashed \/ s.selected = {} THEN s
    ELSE toggle_file_visibility([s EXCEPT !.selected = {}])

\* las_file_list.setCurrentRow(row): makes the row current and selects it;
\* emits itemSelectionChanged when the selection changed.
list_setCurrentRow(s, row) ==
    IF s.crashed THEN s
    ELSE IF row \notin 0..(Len(s.items) - 1) THEN [s EXCEPT !.currentRow = -1]
    ELSE LET s1 == [s EXCEPT !.currentRow = row, !.selected = @ \cup {row}]
         IN IF row \in s.selected THEN s1 ELSE toggle_file_visibility(s1)

\* las_file_list.clear(): clears the selection and the current row, then
\* drops the rows.
list_clear(s) ==
    LET s1 == list_clearSelection(s)
    IN IF s1.crashed THEN s1
       ELSE [s1 EXCEPT !.currentRow = -1, !.items = <<>>]

\* The addItem loop of select_folder_and_load.
list_addItems(s) ==
    IF s.crashed THEN s
    ELSE [s EXCEPT !.items = [i \in DOMAIN s.las_data.list |->
                                 s.las_data.list[i].file]]

\* A click on a row of the MultiSelection list: the row becomes current and
\* its selection is toggled; itemSelectionChanged is emitted.
list_click(s, row) ==
    toggle_file_visibility(
        [s EXCEPT !.currentRow = row,
                  !.selected = IF row \in @ THEN @ \ {row} ELSE @ \cup {row}])

\* Variant of clear_all_files that drops the loaded records as well.
clear_all_files_dropping_records(s) ==
    IF s.crashed THEN s
    ELSE update_plot(list_clearSelection(
             [s EXCEPT !.visible_files = {},
                       !.las_data = [none |-> FALSE, list |-> <<>>]]))

\* clear_all_files
clear_all_files(s) ==
    IF s.crashed THEN s
    ELSE update_plot(list_clearSelection([s EXCEPT !.visible_files = {}]))

\* Variant of the tail that refills the list but selects no file.
show_loaded_no_autoselect(s) == update_plot(list_addItems(list_clear(s)))

\* The tail of select_folder_and_load, after both early returns: the list
\* widget is refilled and the first file is selected and made visible.
show_loaded(s) ==
    LET s1 == list_addItems(list_clear(s))
        s2 == IF Len(s1.items) > 0
              THEN LET s3 == list_setCurrentRow(s1, 0)
                   IN IF s3.crashed THEN s3
                      ELSE [s3 EXCEPT !.visible_files =
                                         @ \cup {s3.las_data.list[1].file}]
              ELSE s1
    IN update_plot(s2)

\* select_folder_and_load; cancelled = TRUE when the folder dialog returns ''.
select_folder_and_load(s, cancelled, dir) ==
    IF s.crashed THEN s
    ELSE IF cancelled THEN MessageBox(s, "No Folder Selected")
    ELSE LET r  == load_las_files_from_folder(dir)
             s1 == [s EXCEPT !.las_data = [none |-> r.none, list |-> r.list],
                             !.report = @ \o r.message,
                             !.ingest.list = r.list]
         IN IF r.none THEN [s1 EXCEPT !.ingest.outcome = "TooManyFiles"]
            ELSE IF r.list = <<>>
                 THEN MessageBox([s1 EXCEPT !.ingest.outcome = "NoneValid"],
                                 "No LAS Files")
            ELSE show_loaded([s1 EXCEPT !.ingest.outcome = "Loaded"])

\* A line actor the plotter has not handed out among the live ones.
new_actor(live) == Min({a \in 1..(Cardinality(live) + 1) : a \notin live})

\* Variant that leaves the previous line on the surface.
remove_last_line_skipped(s) == s

\* The "if self.last_drawn_line: remove_actor" of on_point_picked;
\* remove_actor of an actor that is no longer on the surface changes nothing.
remove_last_line(s) ==
    IF s.last_drawn_line # None
    THEN [s EXCEPT !.lines = @ \ {s.last_drawn_line},
                   !.released = s.last_drawn_line \in s.lines]
    ELSE s

\* round(abs(SCALING_FACTOR * dz), 3) for a difference dz of two z
\* coordinates, in thousandths.
z_distance_of(dz) ==
    IF SCALING_FACTOR % UNITS_PER_THOUSANDTH = 0
    THEN Abs(dz) * (SCALING_FACTOR \div UNITS_PER_THOUSANDTH)
    ELSE RoundHalfEven(Abs(dz) * SCALING_FACTOR, UNITS_PER_THOUSANDTH)

\* f"{z_distance:.1f}": the printed number, in tenths.
format_1f(thousandths) == RoundHalfEven(thousandths, THOUSANDTHS_PER_TENTH)

\* on_point_picked up to its message box: the point is appended and, when it
\* is the second one, the distance is computed and shown in the modal
\* "Z-Distance" box, in which the handler waits.
on_point_picked(s, picked_point) ==
    IF s.crashed THEN s
    ELSE LET pts == Append(s.selected_points, picked_point)
         IN IF Len(pts) = 2
            THEN LET point1 == pts[1]
                     point2 == pts[2]
                     d == z_distance_of(point2[3] - point1[3])
                 IN MessageBox([s EXCEPT !.selected_points = pts,
                                         !.z_distance = d,
                                         !.z_shown = format_1f(d),
                                         !.pc = "z_box"],
                               "Z-Distance")
            ELSE [s EXCEPT !.selected_points = pts]

\* Variant of the rest of on_point_picked that keeps the second point as the
\* first one of the next pair.
on_point_picked_after_box_sliding(s) ==
    LET s1 == remove_last_line(s)
        a  == new_actor(s1.lines \cup ({s.last_drawn_line} \ {None}))
    IN [s1 EXCEPT !.lines = @ \cup {a},
                  !.last_drawn_line = a,
                  !.selected_points = <<s.selected_points[2]>>,
                  !.pc = "idle"]

\* The rest of on_point_picked, once the box is closed: the previous line is
\* removed, the new one added and the points cleared.
on_point_picked_after_box(s) ==
    LET s1 == remove_last_line(s)
        a  == new_actor(s1.lines \cup ({s.last_drawn_line} \ {None}))
    IN [s1 EXCEPT !.lines = @ \cup {a},
                  !.last_drawn_line = a,
                  !.selected_points = <<>>,
                  !.pc = "idle"]

\* Variant of get_visible_file_indexes that counts the rows from 1.
get_visible_file_indexes_one_based(list, visible) ==
    {j \in DOMAIN list : list[j].file \in visible}

\* get_visible_file_indexes (0-based)
get_visible_file_indexes(list, visible) ==
    {i - 1 : i \in {j \in DOMAIN list : list[j].file \in visible}}

\* Variant of the anchor that takes the maximum in both directions.
boundary_index_always_max(indexes, step) == Max(indexes)

\* max(indexes) if step > 0 else min(indexes)
boundary_index_of(indexes, step) ==
    IF step > 0 THEN Max(indexes) ELSE Min(indexes)

\* Variant of the else branch that clears the visibility before reporting.
at_boundary_clearing(s, boundary_message) ==
    MessageBox(clear_all_files(s), boundary_message)

\* The else branch of _navigate_las_files: the "End" message box.
at_boundary(s, boundary_message) == MessageBox(s, boundary_message)

\* Variant of the answer to navigation with no visible file that shows the
\* first loaded file.
no_files_selected_shows_first(s) ==
    IF s.las_data.none \/ s.las_data.list = <<>>
    THEN MessageBox(s, "No Files Selected")
    ELSE update_plot([list_setCurrentRow(s, 0) EXCEPT !.visible_files =
                          {s.las_data.list[1].file}])

\* The first branch of _navigate_las_files: a warning and nothing else.
no_files_selected(s) == MessageBox(s, "No Files Selected")

\* _navigate_las_files; max() and min() of an empty list raise ValueError.
navigate_las_files(s, step, boundary_message) ==
    IF s.crashed THEN s
    ELSE IF s.visible_files = {} THEN no_files_selected(s)
    ELSE IF s.las_data.none THEN Raise(s)
    ELSE LET indexes == get_visible_file_indexes(s.las_data.list,
                                                 s.visible_files)
         IN IF indexes = {} THEN Raise(s)
            ELSE LET boundary_index == boundary_index_of(indexes, step)
                     next_index     == boundary_index + step
                 IN IF 0 <= next_index /\ next_index < Len(s.las_data.list)
                    THEN LET s1 == list_setCurrentRow(clear_all_files(s),
                                                      next_index)
                         IN IF s1.crashed THEN s1
                            ELSE update_plot([s1 EXCEPT !.visible_files =
                                    @ \cup {s.las_data.list[next_index + 1].file}])
                    ELSE at_boundary(s, boundary_message)

\* Variant of next_las_file that steps towards the first file.
next_las_file_stepping_back(s) == navigate_las_files(s, -1, "last")

next_las_file(s) == navigate_las_files(s, 1, "last")
previous_las_file(s) == navigate_las_files(s, -1, "first")

\* copy_to_clipboard: pyperclip.copy may raise PyperclipException.
copy_to_clipboard(s, text, label, clipboard_ok) ==
    IF clipboard_ok
    THEN MessageBox([s EXCEPT !.clipboard = [written |-> TRUE, text |-> text]],
                    "Copied")
    ELSE MessageBox(s, "Error")

\* The guard of both export handlers.
no_file_selected(s) ==
    s.las_data.none \/ s.las_data.list = <<>> \/ s.currentRow = -1

\* Variant of the handling of a failed extraction that clears the files.
extraction_failed_clearing(s) == MessageBox(clear_all_files(s), "Error")

\* except (IndexError, AttributeError) of copy_detection_id
extraction_failed(s) == MessageBox(s, "Error")

\* copy_detection_id
copy_detection_id(s, clipboard_ok) ==
    IF s.crashed THEN s
    ELSE IF no_file_selected(s) THEN MessageBox(s, "No File Selected")
    ELSE IF s.currentRow >= Len(s.las_data.list) THEN extraction_failed(s)
    ELSE LET file_name == s.las_data.list[s.currentRow + 1].file
             found     == detection_id(path_of(file_name))
         IN IF found.ok
            THEN copy_to_clipboard([s EXCEPT !.exported = file_name],
                                   found.id, "Detection ID", clipboard_ok)
            ELSE extraction_failed(s)

\* The text copy_coordinates builds from the points of a cloud.
coordinates_of(point_cloud) == <<"mean y, mean x of", ToString(point_cloud)>>

\* copy_coordinates; every exception is caught and shown as "Error".
copy_coordinates(s, clipboard_ok) ==
    IF s.crashed THEN s
    ELSE IF no_file_selected(s) THEN MessageBox(s, "No File Selected")
    ELSE IF s.currentRow >= Len(s.las_data.list) THEN MessageBox(s, "Error")
    ELSE LET rec == s.las_data.list[s.currentRow + 1]
         IN copy_to_clipboard([s EXCEPT !.exported = rec.file],
                              coordinates_of(rec.result.point_cloud),
                              "Coordinates", clipboard_ok)

\* restart_program
restart_program(s, yes, cancelled, dir) ==
    LET asked == MessageBox(s, "Confirm Restart")
    IN IF yes
       THEN select_folder_and_load(clear_all_files(asked), cancelled, dir)
       ELSE asked

\* ------------------------------------------- the current-index viewers
\* The state of a current-index viewer as one record.
IxCur ==
    [variant |-> ix_variant, las_data |-> ix_las_data,
     current_index |-> ix_current_index, rows |-> ix_rows, shown |-> ix_shown,
     running |-> ix_running, crashed |-> ix_crashed, report |-> <<>>]

IxBecomes(x) ==
    /\ ix_variant' = x.variant
    /\ ix_las_data' = x.las_data
    /\ ix_current_index' = x.current_index
    /\ ix_rows' = x.rows
    /\ ix_shown' = x.shown
    /\ ix_running' = x.running
    /\ ix_crashed' = x.crashed
    /\ ix_report' = x.report

\* The attributes __init__ sets before it calls select_folder_and_load.
IxFresh(variant) ==
    [variant |-> variant, las_data |-> <<>>, current_index |-> 0,
     rows |-> <<>>, shown |-> None, running |-> TRUE, crashed |-> FALSE,
     report |-> <<>>]

\* list[i] of Python raises IndexError unless -len <= i < len.
index_in_range(list, i) == -Len(list) <= i /\ i < Len(list)
py_item(list, i) == IF i >= 0 THEN list[i + 1] ELSE list[Len(list) + i + 1]

\* update_plot of qt-pipeline/main.py
update_plot_v1(x) ==
    IF ~index_in_range(x.las_data, x.current_index)
    THEN [x EXCEPT !.crashed = TRUE, !.shown = None]
    ELSE [x EXCEPT !.shown = py_item(x.las_data, x.current_index).file]

\* update_plot of qt-pipeline/qt-pipeline/main.py; its setCurrentRow
\* emits no itemClicked.
update_plot_v2(x) ==
    IF ~index_in_range(x.las_data, x.current_index)
    THEN [x EXCEPT !.crashed = TRUE, !.shown = None]
    ELSE [x EXCEPT !.shown = py_item(x.las_data, x.current_index).file]

\* select_folder_and_load of qt-pipeline/main.py; sys.exit() ends the
\* program in both viewers.
select_folder_and_load_v1(x, cancelled, dir) ==
    IF cancelled
    THEN [x EXCEPT !.report = Append(@, "No Folder Selected"),
                   !.running = FALSE]
    ELSE LET x1 == [x EXCEPT !.las_data = load_las_files_from_folder_v1(dir).list]
         IN IF x1.las_data = <<>>
            THEN [x1 EXCEPT !.report = Append(@, "No LAS Files"),
                            !.running = FALSE]
            ELSE update_plot_v1([x1 EXCEPT !.current_index = 0])

\* Variant of the end of select_folder_and_load that keeps current_index.
show_current_v2(x) == update_plot_v2(x)

\* The end of select_folder_and_load of qt-pipeline/qt-pipeline/main.py:
\* self.current_index = 0, then update_plot().
show_first_v2(x) == update_plot_v2([x EXCEPT !.current_index = 0])

\* select_folder_and_load of qt-pipeline/qt-pipeline/main.py
select_folder_and_load_v2(x, cancelled, dir) ==
    IF cancelled
    THEN [x EXCEPT !.report = Append(@, "No Folder Selected"),
                   !.running = FALSE]
    ELSE LET x1 == [x EXCEPT !.las_data = load_las_files_from_folder_v2(dir).list]
         IN IF x1.las_data = <<>>
            THEN [x1 EXCEPT !.report = Append(@, "No LAS Files"),
                            !.running = FALSE]
            ELSE show_first_v2(
                     [x1 EXCEPT !.rows = [i \in DOMAIN x1.las_data |->
                                             x1.las_data[i].file]])

\* next_las_file of qt-pipeline/main.py
next_las_file_v1(x) ==
    IF x.current_index < Len(x.las_data) - 1
    THEN update_plot_v1([x EXCEPT !.current_index = @ + 1])
    ELSE [x EXCEPT !.report = Append(@, "End")]

\* previous_las_file of qt-pipeline/main.py
previous_las_file_v1(x) ==
    IF x.current_index > 0
    THEN update_plot_v1([x EXCEPT !.current_index = @ - 1])
    ELSE [x EXCEPT !.report = Append(@, "Start")]

\* next_las_file of qt-pipeline/qt-pipeline/main.py
next_las_file_v2(x) ==
    IF x.current_index < Len(x.las_data) - 1
    THEN update_plot_v2([x EXCEPT !.current_index = @ + 1])
    ELSE [x EXCEPT !.report = Append(@, "End")]

\* previous_las_file of qt-pipeline/qt-pipeline/main.py
previous_las_file_v2(x) ==
    IF x.current_index > 0
    THEN update_plot_v2([x EXCEPT !.current_index = @ - 1])
    ELSE [x EXCEPT !.report = Append(@, "Start")]

\* load_selected_file of qt-pipeline/qt-pipeline/main.py, the slot of
\* itemClicked; index is the row of the clicked item.
load_selected_file_v2(x, index) ==
    IF index # x.current_index
    THEN update_plot_v2([x EXCEPT !.current_index = index])
    ELSE x

\* confirm_reset_program of qt-pipeline/main.py
confirm_reset_program_v1(x, yes, cancelled, dir) ==
    LET asked == [x EXCEPT !.report = Append(@, "Reset Program")]
    IN IF yes THEN select_folder_and_load_v1(asked, cancelled, dir) ELSE asked

\* confirm_reset_program of qt-pipeline/qt-pipeline/main.py
confirm_reset_program_v2(x, yes, cancelled, dir) ==
    LET asked == [x EXCEPT !.report = Append(@, "Reset Program")]
    IN IF yes THEN select_folder_and_load_v2(asked, cancelled, dir) ELSE asked

\* The methods of LASViewer of qt-pipeline/main.py; handle_point_pick, which
\* __init__ binds to the "p" key, is not among them.
methods_v1 ==
    {"select_folder_and_load", "update_plot", "copy_detection_id",
     "copy_coordinates", "next_las_file", "previous_las_file",
     "confirm_reset_program", "confirm_close_program", "closeEvent"}

\* __init__ of qt-pipeline/main.py: self.handle_point_pick raises
\* AttributeError before select_folder_and_load is called, so that
\* start_program never gets its viewer.
init_v1(cancelled, dir) ==
    IF "handle_point_pick" \notin methods_v1
    THEN [IxFresh("v1") EXCEPT !.crashed = TRUE, !.running = FALSE]
    ELSE select_folder_and_load_v1(IxFresh("v1"), cancelled, dir)

\* __init__ of qt-pipeline/qt-pipeline/main.py
init_v2(cancelled, dir) ==
    select_folder_and_load_v2(IxFresh("v2"), cancelled, dir)

\* The folders opened in a current-index viewer: at most MaxFiles .las
\* files, any of them unreadable.
IndexFolders ==
    {ViewerDir(kinds) :
        kinds \in UNION {[1..k -> {"las_ok", "las_bad"}] : k \in 0..MaxFiles}}

\* ---------------------------------------------------------------- actions
\* __init__ followed by the clear_all_files() of main().
ViewerStart ==
    /\ las_data = [none |-> FALSE, list |-> <<>>]
    /\ visible_files = {}
    /\ selected_points = <<>>
    /\ last_drawn_line = None
    /\ items = <<>>
    /\ selected = {}
    /\ currentRow = -1
    /\ meshes = {}
    /\ lines = {}
    /\ crashed = FALSE
    /\ report = <<>>
    /\ z_distance = -1
    /\ z_shown = -1
    /\ pc = "idle"
    /\ picks = 0
    /\ clipboard = NoClip
    /\ exported = None
    /\ released = FALSE
    /\ ingest = NoIngest
    /\ lastOp = "init"
    /\ navTrail = <<>>

\* The variables of the other specifications, which the viewer never uses.
IngestIdle == ing_dir = <<>> /\ ing_variant = "" /\ ing_out = NoOut
DetectIdle == det_path = <<>> /\ det_variant = "" /\ det_out = NoId
LoaderIdle ==
    /\ ld_file = LasFile(FALSE, <<>>, FALSE, <<>>, <<>>, <<>>)
    /\ ld_variant = ""
    /\ ld_out = LoadFailed

ScaleIdle ==
    sc_z = <<0, 0>> /\ sc_done = FALSE /\ sc_distance = -1 /\ sc_shown = -1

\* No current-index viewer is running.
IndexIdle ==
    /\ ix_variant = ""
    /\ ix_las_data = <<>>
    /\ ix_current_index = 0
    /\ ix_rows = <<>>
    /\ ix_shown = None
    /\ ix_running = FALSE
    /\ ix_crashed = FALSE
    /\ ix_report = <<>>
    /\ ix_op = ""
    /\ ix_before = <<0, 0>>

Init ==
    ViewerStart /\ IngestIdle /\ DetectIdle /\ LoaderIdle /\ ScaleIdle
        /\ IndexIdle

\* A handler of the multi-selection viewer runs.
ViewerHandler(op, s) ==
    /\ ~crashed
    /\ pc = "idle"
    /\ Becomes(s)
    /\ lastOp' = op
    /\ UNCHANGED <<ingestVars, detectVars, loaderVars, scaleVars>>

Handler(op, s) == ViewerHandler(op, s) /\ UNCHANGED indexVars

Trail(op) ==
    Append(IF Len(navTrail) = 2 THEN Tail(navTrail) ELSE navTrail,
           [op |-> op, before |-> visible_files])

\* The "Select Folder" button.
SelectFolder ==
    /\ \E cancelled \in BOOLEAN :
         \E dir \in (IF cancelled THEN {<<>>} ELSE ViewerFolders) :
            Handler("select_folder", select_folder_and_load(Cur, cancelled, dir))
    /\ navTrail' = <<>>
    /\ UNCHANGED picks

\* The "r" key.
Restart ==
    /\ \E yes \in BOOLEAN, cancelled \in BOOLEAN :
         \E dir \in (IF yes /\ ~cancelled THEN ViewerFolders ELSE {<<>>}) :
            Handler("restart", restart_program(Cur, yes, cancelled, dir))
    /\ navTrail' = <<>>
    /\ UNCHANGED picks

\* A click on a row of the file list.
ClickItem ==
    /\ \E row \in 0..(Len(items) - 1) :
            Handler("toggle", list_click(Cur, row))
    /\ navTrail' = <<>>
    /\ UNCHANGED picks

\* The "Clear All" button.
ClearAll ==
    /\ Handler("clear_all", clear_all_files(Cur))
    /\ navTrail' = <<>>
    /\ UNCHANGED picks

\* The "Next" button and the Right key.
Next_las_file ==
    /\ Handler("next", next_las_file(Cur))
    /\ navTrail' = Trail("next")
    /\ UNCHANGED picks

\* The "Previous" button and the Left key.
Previous_las_file ==
    /\ Handler("previous", previous_las_file(Cur))
    /\ navTrail' = Trail("previous")
    /\ UNCHANGED picks

\* The plotter reports a picked point of a cloud on the surface.
PointPicked ==
    /\ meshes # {}
    /\ \E p \in PickPoints : Handler("pick", on_point_picked(Cur, p))
    /\ navTrail' = <<>>
    /\ picks' = (picks + 1) % 2

\* The "Copy Detection ID" button and the key d.
CopyDetectionId ==
    /\ \E clipboard_ok \in BOOLEAN :
          Handler("copy_detection_id", copy_detection_id(Cur, clipboard_ok))
    /\ navTrail' = <<>>
    /\ UNCHANGED picks

\* The "Copy Coordinates" button and the key c.
CopyCoordinates ==
    /\ \E clipboard_ok \in BOOLEAN :
          Handler("copy_coordinates", copy_coordinates(Cur, clipboard_ok))
    /\ navTrail' = <<>>
    /\ UNCHANGED picks

\* The operator closes the "Z-Distance" box and on_point_picked goes on.
ZDistanceBoxClosed ==
    /\ ~crashed
    /\ pc = "z_box"
    /\ Becomes(on_point_picked_after_box(
                   [Cur EXCEPT !.report = report, !.z_distance = z_distance,
                               !.z_shown = z_shown]))
    /\ UNCHANGED <<lastOp, navTrail, picks>>
    /\ UNCHANGED <<ingestVars, detectVars, loaderVars, scaleVars, indexVars>>

Next ==
    \/ SelectFolder
    \/ Restart
    \/ ClickItem
    \/ ClearAll
    \/ Next_las_file
    \/ Previous_las_file
    \/ PointPicked
    \/ ZDistanceBoxClosed
    \/ CopyDetectionId
    \/ CopyCoordinates

Spec == Init /\ [][Next]_vars

\* ------------------------------------------------- the ingestor on its own
InitIngest ==
    /\ ViewerStart
    /\ ing_dir \in Dirs
    /\ ing_variant = ""
    /\ ing_out = NoOut
    /\ DetectIdle
    /\ LoaderIdle
    /\ ScaleIdle
    /\ IndexIdle

Ingested(variant, out) ==
    /\ ing_variant' = variant
    /\ ing_out' = out
    /\ UNCHANGED ing_dir
    /\ UNCHANGED <<viewerVars, detectVars, loaderVars, scaleVars, indexVars>>

\* load_las_files_from_folder of QTPipeline.py
IngestQTPipeline ==
    /\ ing_variant = ""
    /\ Ingested("QTPipeline", load_las_files_from_folder(ing_dir))

\* load_las_files_from_folder of qt-pipeline/qt-pipeline/main.py
IngestV2 ==
    /\ ing_variant = ""
    /\ Ingested("v2", load_las_files_from_folder_v2(ing_dir))

\* load_las_files_from_folder of qt-pipeline/main.py
IngestV1 ==
    /\ ing_variant = ""
    /\ Ingested("v1", load_las_files_from_folder_v1(ing_dir))

NextIngest ==
    \/ IngestQTPipeline
    \/ IngestV2
    \/ IngestV1

SpecIngest == InitIngest /\ [][NextIngest]_vars

\* ------------------------------------- the detection id extraction on its own
InitDetect ==
    /\ ViewerStart
    /\ IngestIdle
    /\ LoaderIdle
    /\ ScaleIdle
    /\ IndexIdle
    /\ det_path \in Paths
    /\ det_variant = ""
    /\ det_out = NoId

\* copy_detection_id of QTPipeline.py
DetectQTPipeline ==
    /\ det_variant = ""
    /\ det_variant' = "QTPipeline"
    /\ det_out' = detection_id(det_path)
    /\ UNCHANGED <<det_path, viewerVars, ingestVars, loaderVars, scaleVars, indexVars>>

\* copy_detection_id of qt-pipeline/qt-pipeline/main.py
DetectV2 ==
    /\ det_variant = ""
    /\ det_variant' = "v2"
    /\ det_out' = detection_id_v2(det_path)
    /\ UNCHANGED <<det_path, viewerVars, ingestVars, loaderVars, scaleVars, indexVars>>

\* copy_detection_id of qt-pipeline/main.py
DetectV1 ==
    /\ det_variant = ""
    /\ det_variant' = "v1"
    /\ det_out' = detection_id_v1(det_path)
    /\ UNCHANGED <<det_path, viewerVars, ingestVars, loaderVars, scaleVars, indexVars>>

NextDetect ==
    \/ DetectQTPipeline
    \/ DetectV2
    \/ DetectV1

SpecDetect == InitDetect /\ [][NextDetect]_vars

\* ------------------------------------------------ the cloud loader on its own
InitLoad ==
    /\ ViewerStart
    /\ IngestIdle
    /\ DetectIdle
    /\ ScaleIdle
    /\ IndexIdle
    /\ IsLasFile(ld_file)
    /\ ld_variant = ""
    /\ ld_out = LoadFailed

\* load_las_file of QTPipeline.py
LoadQTPipeline ==
    /\ ld_variant = ""
    /\ ld_variant' = "QTPipeline"
    /\ ld_out' = load_las_file_data(ld_file)
    /\ UNCHANGED <<ld_file, viewerVars, ingestVars, detectVars, scaleVars, indexVars>>

\* load_las_file of qt-pipeline/qt-pipeline/main.py
LoadV2 ==
    /\ ld_variant = ""
    /\ ld_variant' = "v2"
    /\ ld_out' = load_las_file_data_v2(ld_file)
    /\ UNCHANGED <<ld_file, viewerVars, ingestVars, detectVars, scaleVars, indexVars>>

NextLoad ==
    \/ LoadQTPipeline
    \/ LoadV2

SpecLoad == InitLoad /\ [][NextLoad]_vars

\* ------------------------------ loading two points and picking them, on its own
\* The heights of the points of a file: the small ones and those of ZValues.
Heights == (0..MaxHeight) \cup ZValues

InitScale ==
    /\ ViewerStart
    /\ IngestIdle
    /\ DetectIdle
    /\ LoaderIdle
    /\ IndexIdle
    /\ sc_z \in Heights \X Heights
    /\ sc_done = FALSE
    /\ sc_distance = -1
    /\ sc_shown = -1

\* load_las_file puts the two points into the cloud and on_point_picked
\* measures their loaded positions.
MeasureLoaded ==
    /\ ~sc_done
    /\ sc_done' = TRUE
    /\ LET point1 == <<0, 0, scaled_z(sc_z[1], SCALING_FACTOR)>>
           point2 == <<0, 0, scaled_z(sc_z[2], SCALING_FACTOR)>>
           d      == z_distance_of(point2[3] - point1[3])
       IN /\ sc_distance' = d
          /\ sc_shown' = format_1f(d)
    /\ UNCHANGED <<sc_z, viewerVars, ingestVars, detectVars, loaderVars, indexVars>>

NextScale == MeasureLoaded

SpecScale == InitScale /\ [][NextScale]_vars

\* --------------------------------------- the current-index viewers on their own
\* The state __init__ of a current-index viewer ends in, for the folder
\* picked in its dialog.
IsStarted(x) ==
    /\ ix_variant = x.variant
    /\ ix_las_data = x.las_data
    /\ ix_current_index = x.current_index
    /\ ix_rows = x.rows
    /\ ix_shown = x.shown
    /\ ix_running = x.running
    /\ ix_crashed = x.crashed
    /\ ix_report = x.report
    /\ ix_op = "init"
    /\ ix_before = <<0, 0>>

InitIndex ==
    /\ ViewerStart
    /\ IngestIdle
    /\ DetectIdle
    /\ LoaderIdle
    /\ ScaleIdle
    /\ \E cancelled \in BOOLEAN :
          \E dir \in (IF cancelled THEN {<<>>} ELSE IndexFolders) :
             \/ IsStarted(init_v1(cancelled, dir))
             \/ IsStarted(init_v2(cancelled, dir))

\* A handler of a current-index viewer runs.
IxHandler(op, x) ==
    /\ ix_running
    /\ ~ix_crashed
    /\ IxBecomes(x)
    /\ ix_op' = op
    /\ ix_before' = <<Len(ix_las_data), ix_current_index>>

\* The "Next" button and the Right key.
IxNext ==
    /\ IxHandler("next", IF ix_variant = "v1" THEN next_las_file_v1(IxCur)
                                              ELSE next_las_file_v2(IxCur))
    /\ UNCHANGED <<viewerVars, ingestVars, detectVars, loaderVars, scaleVars>>

\* The "Previous" button and the Left key.
IxPrevious ==
    /\ IxHandler("previous", IF ix_variant = "v1" THEN previous_las_file_v1(IxCur)
                                                  ELSE previous_las_file_v2(IxCur))
    /\ UNCHANGED <<viewerVars, ingestVars, detectVars, loaderVars, scaleVars>>

\* A click on a row of the file list, which only v2 has.
IxClick ==
    /\ ix_variant = "v2"
    /\ \E row \in 0..(Len(ix_rows) - 1) :
          IxHandler("click", load_selected_file_v2(IxCur, row))
    /\ UNCHANGED <<viewerVars, ingestVars, detectVars, loaderVars, scaleVars>>

\* The "r" key.
IxReset ==
    /\ \E yes \in BOOLEAN, cancelled \in BOOLEAN :
          \E dir \in (IF yes /\ ~cancelled THEN IndexFolders ELSE {<<>>}) :
             IxHandler("reset",
                       IF ix_variant = "v1"
                       THEN confirm_reset_program_v1(IxCur, yes, cancelled, dir)
                       ELSE confirm_reset_program_v2(IxCur, yes, cancelled, dir))
    /\ UNCHANGED <<viewerVars, ingestVars, detectVars, loaderVars, scaleVars>>

NextIndex ==
    \/ IxNext
    \/ IxPrevious
    \/ IxClick
    \/ IxReset

SpecIndex == InitIndex /\ [][NextIndex]_vars

\* ------------------------- the two kinds of navigation, run side by side
\* The attributes and widgets of the multi-selection viewer after __init__.
Fresh ==
    [las_data |-> [none |-> FALSE, list |-> <<>>], visible_files |-> {},
     selected_points |-> <<>>, last_drawn_line |-> None, items |-> <<>>,
     selected |-> {}, currentRow |-> -1, meshes |-> {}, lines |-> {},
     crashed |-> FALSE, report |-> <<>>, z_distance |-> -1, z_shown |-> -1,
     pc |-> "idle", clipboard |-> NoClip, exported |-> None,
     released |-> FALSE, ingest |-> NoIngest]

\* The multi-selection viewer is in state s, which a folder load left.
IsLoaded(s) ==
    /\ las_data = s.las_data
    /\ visible_files = s.visible_files
    /\ selected_points = s.selected_points
    /\ last_drawn_line = s.last_drawn_line
    /\ items = s.items
    /\ selected = s.selected
    /\ currentRow = s.currentRow
    /\ meshes = s.meshes
    /\ lines = s.lines
    /\ crashed = s.crashed
    /\ report = s.report
    /\ z_distance = s.z_distance
    /\ z_shown = s.z_shown
    /\ pc = s.pc
    /\ clipboard = s.clipboard
    /\ exported = s.exported
    /\ released = s.released
    /\ ingest = s.ingest
    /\ picks = 0
    /\ lastOp = "select_folder"
    /\ navTrail = <<>>

\* Both viewers have loaded the same folder, which has a readable file: the
\* multi-selection viewer shows its first file alone, the current-index
\* viewer of qt-pipeline/qt-pipeline/main.py stands at index 0.
InitNav ==
    /\ IngestIdle
    /\ DetectIdle
    /\ LoaderIdle
    /\ ScaleIdle
    /\ \E dir \in IndexFolders :
          /\ init_v2(FALSE, dir).running
          /\ IsLoaded(select_folder_and_load(Fresh, FALSE, dir))
          /\ IsStarted(init_v2(FALSE, dir))

\* "Next" in both viewers.
NavNext ==
    /\ ViewerHandler("next", next_las_file(Cur))
    /\ navTrail' = Trail("next")
    /\ UNCHANGED picks
    /\ IxHandler("next", next_las_file_v2(IxCur))

\* "Previous" in both viewers.
NavPrevious ==
    /\ ViewerHandler("previous", previous_las_file(Cur))
    /\ navTrail' = Trail("previous")
    /\ UNCHANGED picks
    /\ IxHandler("previous", previous_las_file_v2(IxCur))

\* Both viewers load another folder that has a readable file: "Select
\* Folder" in one, a confirmed reset in the other.
NavReload ==
    /\ \E dir \in IndexFolders :
          /\ init_v2(FALSE, dir).running
          /\ ViewerHandler("select_folder",
                           select_folder_and_load(Cur, FALSE, dir))
          /\ IxHandler("reset", confirm_reset_program_v2(IxCur, TRUE, FALSE, dir))
    /\ navTrail' = <<>>
    /\ UNCHANGED picks

NextNav ==
    \/ NavNext
    \/ NavPrevious
    \/ NavReload

SpecNav == InitNav /\ [][NextNav]_vars

\* ================================================================ claims
\* keys(records): the sourcePaths of the loaded records; none when las_data
\* is None.
Records == IF las_data.none THEN <<>> ELSE las_data.list
RecordKeys == Files(Records)

\* The 0-based indexes of the visible records, computed from the state.
VisibleIndexes ==
    {i \in 0..(Len(Records) - 1) : Records[i + 1].file \in visible_files}

\* The session state of the specification: records, visible, pendingPicks
\* and the marker slot.
session == <<las_data, visible_files, selected_points, last_drawn_line>>

\* C1: in every reachable state every identifier in the visible set is the
\* sourcePath of a record currently in the session's records.
C1_VisibleSubsetOfRecords == visible_files \subseteq RecordKeys

\* C2: next (previous) invoked with a non-empty visible set whose maximum
\* (minimum) index m has m+1 (m-1) inside records leaves exactly the record
\* at m+1 (m-1) visible, whatever the size of the visible set was.
C2_NavigateCollapses ==
    [][/\ (/\ lastOp' = "next"
           /\ VisibleIndexes # {}
           /\ Max(VisibleIndexes) + 1 < Len(Records))
          => visible_files' = {Records[Max(VisibleIndexes) + 2].file}
       /\ (/\ lastOp' = "previous"
           /\ VisibleIndexes # {}
           /\ Min(VisibleIndexes) - 1 >= 0)
          => visible_files' = {Records[Min(VisibleIndexes)].file}]_vars

\* C2 witness: previous has just collapsed a multi-visible set whose minimum
\* was not its maximum onto the record before the minimum.
C2_Witness ==
    /\ lastOp = "previous"
    /\ report = <<>>
    /\ ~crashed
    /\ Cardinality(navTrail[Len(navTrail)].before) >= 2
    /\ Cardinality(visible_files) = 1
    /\ Len(Records) >= 3

\* C3: next at the last index reports the "last" boundary and previous at
\* index 0 the "first" boundary, and either leaves records, visible,
\* pendingPicks and the marker slot unchanged.
C3_BoundaryChangesNothing ==
    [][/\ (/\ lastOp' = "next"
           /\ VisibleIndexes # {}
           /\ Max(VisibleIndexes) = Len(Records) - 1)
          => (report' = <<"last">> /\ UNCHANGED session)
       /\ (/\ lastOp' = "previous"
           /\ VisibleIndexes # {}
           /\ Min(VisibleIndexes) = 0)
          => (report' = <<"first">> /\ UNCHANGED session)]_vars

\* C3 witness: next was invoked at the last of several records, with a pick
\* pending and a marker in the slot, and reported the boundary.
C3_Witness ==
    /\ lastOp = "next"
    /\ report = <<"last">>
    /\ Len(Records) >= 2
    /\ VisibleIndexes # {}
    /\ Max(VisibleIndexes) = Len(Records) - 1
    /\ Len(selected_points) = 1
    /\ last_drawn_line # None

\* The index of the single record in a one-element set of paths.
IndexOfOnly(S) == CHOOSE i \in 0..(Len(Records) - 1) : S = {Records[i + 1].file}

IsSingleRecord(S) == \E i \in 0..(Len(Records) - 1) : S = {Records[i + 1].file}

\* The last two handlers were a then b, and a started from a single visible
\* record.
RoundTripFrom(a, b) ==
    /\ ~crashed
    /\ Len(navTrail) = 2
    /\ navTrail[1].op = a
    /\ navTrail[2].op = b
    /\ IsSingleRecord(navTrail[1].before)

\* C4: from a single visible record i that is not the last, next then
\* previous returns to {record i}; from a single visible record i > 0,
\* previous then next returns to {record i}.
C4_RoundTrip ==
    /\ (/\ RoundTripFrom("next", "previous")
        /\ IndexOfOnly(navTrail[1].before) < Len(Records) - 1)
       => visible_files = navTrail[1].before
    /\ (/\ RoundTripFrom("previous", "next")
        /\ IndexOfOnly(navTrail[1].before) > 0)
       => visible_files = navTrail[1].before

\* C4 witness: next then previous have run from the middle record of three.
C4_Witness ==
    /\ RoundTripFrom("next", "previous")
    /\ Len(Records) = 3
    /\ IndexOfOnly(navTrail[1].before) = 1
    /\ navTrail[2].before = {Records[3].file}
    /\ visible_files = {Records[2].file}

\* The last handler completed a folder load.
Loaded == ingest.outcome = "Loaded" /\ ~crashed

\* C5 as stated: after a successful folder load the records are exactly the
\* newly ingested sequence and the visible set is empty.
C5_LoadClearsVisible ==
    Loaded => (/\ ~las_data.none
               /\ las_data.list = ingest.list
               /\ visible_files = {})

\* C5 amended: after a successful folder load the records are exactly the
\* newly ingested sequence and the visible set is exactly the first record
\* of that sequence, regardless of what was visible before.
C5_LoadShowsFirst ==
    Loaded => (/\ ~las_data.none
               /\ las_data.list = ingest.list
               /\ ingest.list # <<>>
               /\ visible_files = {ingest.list[1].file})

\* C5 witness: a folder of which several files loaded has just been loaded
\* with the "Select Folder" button, and its first file is shown.
C5_Witness ==
    /\ Loaded
    /\ lastOp = "select_folder"
    /\ Len(las_data.list) >= 2
    /\ meshes = {las_data.list[1].file}

\* C6: after a successful folder load pendingPicks is empty, so that the
\* first pick after the load starts a new pair.
C6_LoadClearsPendingPicks == Loaded => selected_points = <<>>

\* The candidates of the listing, and the number of them.
Candidates == SelectSeq(ing_dir, LAMBDA e : e.kind \in {"las_ok", "las_bad"})

Names(entries) == [i \in DOMAIN entries |-> entries[i].name]

\* C7: more than 100 candidates fail with TooManyFiles and zero loads; 100
\* candidates or fewer are not rejected by the ceiling.
C7_Ceiling ==
    ing_variant = "QTPipeline" =>
        /\ Len(Candidates) > 100
           => (/\ ing_out.none
               /\ ing_out.message = <<"Too Many Files">>
               /\ ing_out.calls = <<>>)
        /\ Len(Candidates) <= 100
           => (~ing_out.none /\ ing_out.message = <<>>)

\* C7 witness: a listing of 101 candidates has been rejected.
C7_Witness ==
    /\ ing_variant = "QTPipeline"
    /\ Len(Candidates) = 101
    /\ ing_out.none

\* C8: with at most 100 candidates the result is the subsequence of the
\* candidates whose load succeeds, in enumeration order, and every candidate
\* is attempted, those after a failing one included.
C8_BestEffort ==
    (ing_variant = "QTPipeline" /\ Len(Candidates) <= 100) =>
        /\ [i \in DOMAIN ing_out.list |-> ing_out.list[i].file]
             = Names(SelectSeq(Candidates, LAMBDA e : e.kind = "las_ok"))
        /\ \A i \in DOMAIN ing_out.list :
              ing_out.list[i].result.point_cloud # None
        /\ ing_out.calls = Names(Candidates)

\* C8 witness: a listing that is not in sorted order, with an unreadable
\* file before a readable one, has yielded two records.
C8_Witness ==
    /\ ing_variant = "QTPipeline"
    /\ Len(ing_out.list) = 2
    /\ ing_out.list[1].file > ing_out.list[2].file
    /\ \E i, j \in DOMAIN ing_dir :
          i < j /\ ing_dir[i].kind = "las_bad" /\ ing_dir[j].kind = "las_ok"

\* How often load_las_file was invoked on the path n.
CallsOn(n) == Cardinality({i \in DOMAIN ing_out.calls : ing_out.calls[i] = n})

\* C9: in each variant of the ingestor, an ingestion that is not rejected
\* invokes the loader exactly once per candidate, successful or not.
C9_OneLoadPerCandidate ==
    (ing_variant # "" /\ ~ing_out.none) =>
        /\ Len(ing_out.calls) = Len(Candidates)
        /\ \A i \in DOMAIN Candidates : CallsOn(Candidates[i].name) = 1

\* C10: at most one measurement line is on the rendering surface.
C10_AtMostOneLine == Cardinality(lines) <= 1

\* C10 witness: a measurement has completed while the line of the previous
\* one was on the surface, which was taken off.
C10_Witness ==
    /\ lastOp = "pick"
    /\ z_distance >= 0
    /\ released
    /\ lines = {last_drawn_line}

\* ------------------------------------------------------------------ C11
\* C11: pendingPicks never holds more than 2 points and the pair is never
\* observable complete: in every state in which the viewer has handed control
\* to the operator, the open "Z-Distance" box that reports the distance
\* included, selected_points holds 0 or 1 points.
C11_CompleteNeverObservable ==
    /\ Len(selected_points) <= 2
    /\ Len(selected_points) \in {0, 1}

\* ------------------------------------------------------------------ C12
\* A step in which the surface reports a pick.
PickStep == pc = "idle" /\ picks' # picks

\* C12: picks are consumed in disjoint consecutive pairs.  A pick that finds
\* no point pending starts a pair and measures nothing; a pick that finds one
\* pending completes the pair, the distance being computed from the pending
\* point and the new one; closing the box leaves no point pending.  So the
\* points pending are as many as the picks so far modulo 2, and a
\* measurement is made on every second pick only.
C12_PairsOfPicks ==
    [][ /\ (PickStep /\ selected_points = <<>>) =>
              /\ Len(selected_points') = 1
              /\ selected_points'[1] \in PickPoints
              /\ pc' = "idle"
              /\ z_distance' = -1
              /\ UNCHANGED <<last_drawn_line, lines>>
        /\ (PickStep /\ selected_points # <<>>) =>
              /\ Len(selected_points) = 1
              /\ Len(selected_points') = 2
              /\ selected_points'[1] = selected_points[1]
              /\ pc' = "z_box"
              /\ z_distance' = z_distance_of(selected_points'[2][3]
                                             - selected_points'[1][3])
        /\ (pc = "z_box") =>
              /\ pc' = "idle"
              /\ selected_points' = <<>>
              /\ z_distance' = z_distance
              /\ last_drawn_line' \in lines'
        /\ (pc' = "idle") => Len(selected_points') = picks'
        /\ (pc' = "z_box") => picks' = 0
      ]_vars

\* A third pick has started a new pair after a completed one.
C12_Witness ==
    /\ lastOp = "pick"
    /\ pc = "idle"
    /\ Len(selected_points) = 1
    /\ last_drawn_line # None
    /\ ~crashed

\* ------------------------------------------------------------------ C13
\* C13: the distance reported for a completed pair (p1, p2) is
\* |SCALING_FACTOR * (p2.z - p1.z)| at a precision of 3 decimal places (so
\* non-negative, independent of x and y, and the same for (p2, p1)); it is
\* 500000.000 for p1 = (0, 0, 0) and p2 = (0, 0, 5).
C13_ReportedDistance ==
    (pc = "z_box") =>
        LET p1 == selected_points[1]
            p2 == selected_points[2]
        IN /\ z_shown * THOUSANDTHS_PER_TENTH = z_distance_of(p2[3] - p1[3])
           /\ z_shown * THOUSANDTHS_PER_TENTH = z_distance_of(p1[3] - p2[3])
           /\ z_shown >= 0
           /\ (p1 = <<0, 0, 0>> /\ p2 = <<0, 0, Whole(5)>>) =>
                  z_shown * THOUSANDTHS_PER_TENTH = 500000000

\* ------------------------------------------------------------------ C16
\* C16: next and previous invoked while no file is visible report "No Files
\* Selected" and leave the records, the visible set, the pending picks and
\* the marker slot as they were, in every reachable state.
C16_NavigateEmptyVisible ==
    [][ (pc = "idle" /\ lastOp' \in {"next", "previous"}
                     /\ visible_files = {}) =>
            /\ report' = <<"No Files Selected">>
            /\ ~crashed'
            /\ UNCHANGED <<session, lines, meshes>>
      ]_vars

\* Navigation was refused with records loaded, nothing visible (after Clear
\* All) and a pick pending.
C16_Witness ==
    /\ lastOp \in {"next", "previous"}
    /\ report = <<"No Files Selected">>
    /\ Records # <<>>
    /\ visible_files = {}
    /\ selected_points # <<>>

\* ------------------------------------------------------------------ C14
\* The words of a path after its last separator: the file's name.
FileNameOf(path) ==
    LET last == CHOOSE k \in DOMAIN path :
                    path[k] = "/" /\ \A j \in (k + 1)..Len(path) : path[j] # "/"
    IN SubSeq(path, last + 1, Len(path))

Count(text, word) == Cardinality({i \in DOMAIN text : text[i] = word})

\* What the claim says the detection id of a path is: the words of the
\* file's name between "Detection_" and the extension, and no id when the
\* file's name has no "Detection_".
ClaimedId(path) ==
    LET name == FileNameOf(path)
    IN IF Count(name, "Detection_") = 0 THEN NoId
       ELSE LET m == CHOOSE k \in DOMAIN name : name[k] = "Detection_"
            IN [ok |-> TRUE, id |-> SubSeq(name, m + 1, Len(name) - 1)]

\* C14: the detection id is the part of the path's file name between
\* "Detection_" and the extension, whatever the directory part holds, and
\* the extraction fails when the file's name has no "Detection_".  Stated
\* for the file names that hold "Detection_" at most once and ".las" only as
\* their extension, for which the part between the two is unambiguous.
C14_IdFromFileName ==
    (/\ det_variant \in {"QTPipeline", "v2"}
     /\ Count(FileNameOf(det_path), "Detection_") <= 1
     /\ Count(FileNameOf(det_path), ".las") = 1)
        => det_out = ClaimedId(det_path)

\* ------------------------------------------------------------------ C15
\* A step of one of the two export handlers.
ExportStep ==
    pc = "idle" /\ lastOp' \in {"copy_detection_id", "copy_coordinates"}

\* C15: an export, whether it ends with no file selected, with no detection
\* id found, with a failed clipboard write or with success, leaves the
\* records, the visible set, the pending picks and the marker slot as they
\* were.
C15_ExportChangesNothing ==
    [][ ExportStep =>
            /\ UNCHANGED <<session, lines, meshes, items, selected, currentRow>>
            /\ ~crashed'
      ]_vars

\* copy_detection_id found no detection id in the current file's path, with
\* a file visible, a pick pending and a line drawn.
C15_Witness ==
    /\ lastOp = "copy_detection_id"
    /\ report = <<"Error">>
    /\ exported = None
    /\ visible_files # {}
    /\ selected_points # <<>>
    /\ last_drawn_line # None

\* ------------------------------------------------------------------ C19
\* C19: whenever an export derives a value from a record, that record is in
\* the visible set at that moment, and with an empty visible set an export
\* reports that no file is selected.
C19_ExportsVisibleRecord ==
    (lastOp \in {"copy_detection_id", "copy_coordinates"}) =>
        /\ exported # None => exported \in visible_files
        /\ visible_files = {} => report = <<"No File Selected">>

\* ------------------------------------------------------------------ C17
\* C17: every record load_las_file returns as a success has at least one
\* point and exactly one of the arrays 'Colors' and 'Elevation', 'Colors'
\* exactly when the flag is true and 'Elevation' exactly when it is false,
\* the flag being true exactly for a file with colour; the array has one
\* entry per point; and a readable file with no points is a failed load.
C17_LoadedRecordShape ==
    (ld_variant = "QTPipeline") =>
        /\ ~ld_out.none =>
              LET cloud == ld_out.point_cloud
              IN /\ Len(cloud.points) >= 1
                 /\ Len(cloud.points) = Len(ld_file.Z)
                 /\ Cardinality(cloud.arrays) = 1
                 /\ ld_out.has_rgb <=> cloud.arrays = {"Colors"}
                 /\ ~ld_out.has_rgb <=> cloud.arrays = {"Elevation"}
                 /\ ld_out.has_rgb <=> ld_file.rgb
                 /\ ld_out.has_rgb => Len(cloud.Colors) = Len(cloud.points)
                 /\ ~ld_out.has_rgb => Len(cloud.Elevation) = Len(cloud.points)
        /\ Len(ld_file.Z) = 0 => ld_out.none

\* A file with colour and MaxPoints points was loaded with success.
C17_Witness ==
    /\ ld_variant = "QTPipeline"
    /\ ~ld_out.none
    /\ ld_out.has_rgb
    /\ Len(ld_out.point_cloud.points) = MaxPoints

\* ------------------------------------------------------------------ C18
\* The values of channel ch in the file.
Channel(ch) ==
    IF ch = 1 THEN ld_file.red ELSE IF ch = 2 THEN ld_file.green ELSE ld_file.blue

\* C18: for a file loaded with colour and each channel whose least and
\* greatest value in the file differ, every output of the channel lies in
\* [0.2, 0.8], the least value gives 0.2 and the greatest 0.8, and the output
\* is 0.2 + 0.6 * (c - least) / (greatest - least) whatever the other two
\* channels hold.
C18_ChannelRange ==
    (ld_variant \in {"QTPipeline", "v2"} /\ ~ld_out.none /\ ld_out.has_rgb) =>
        \A ch \in 1..3 :
            LET raw == Channel(ch)
                lo  == Min({raw[i] : i \in DOMAIN raw})
                hi  == Max({raw[i] : i \in DOMAIN raw})
            IN lo # hi =>
                 \A i \in DOMAIN raw :
                    LET out == ld_out.point_cloud.Colors[i][ch]
                    IN /\ out.den > 0
                       /\ 2 * out.den <= 10 * out.num
                       /\ 10 * out.num <= 8 * out.den
                       /\ raw[i] = lo => 10 * out.num = 2 * out.den
                       /\ raw[i] = hi => 10 * out.num = 8 * out.den
                       /\ 10 * out.num * (hi - lo)
                            = out.den * (2 * (hi - lo) + 6 * (raw[i] - lo))

\* A file was loaded in which the red channel takes a least, a greatest and
\* a value in between, and the blue channel a single value.
C18_Witness ==
    /\ ld_variant = "QTPipeline"
    /\ ~ld_out.none
    /\ ld_out.has_rgb
    /\ {ld_file.red[i] : i \in DOMAIN ld_file.red} = ChannelValues[1]
    /\ Cardinality({ld_file.blue[i] : i \in DOMAIN ld_file.blue}) = 1
    /\ Cardinality({ld_file.green[i] : i \in DOMAIN ld_file.green}) = 2

\* ------------------------------------------------------------------ C20
\* C20: a folder load that ends in "Too Many Files" or with no valid file
\* aborts as a whole: the records and the visible set after the failed
\* attempt are the ones before it.
C20_FailedLoadChangesNothing ==
    [][ (ingest'.outcome \in {"TooManyFiles", "NoneValid"}) =>
            /\ Records' = Records
            /\ visible_files' = visible_files
      ]_vars

\* ------------------------------------------------------------------ C21
\* C21: Clear All empties the visible set, and las_data is changed by no
\* handler other than the two that load a folder: toggling a file, Clear
\* All, next, previous, a pick (the closing of its box included) and the
\* exports leave it as it was.
C21_RecordsChangedByLoadOnly ==
    [][ /\ (pc = "idle" /\ lastOp' \notin {"select_folder", "restart"}) =>
               las_data' = las_data
        /\ (pc = "z_box") => las_data' = las_data
        /\ (pc = "idle" /\ lastOp' = "clear_all") =>
               /\ visible_files' = {}
               /\ ~crashed'
      ]_vars

\* Clear All has emptied the visible set with records loaded and a line
\* drawn before.
C21_Witness ==
    /\ lastOp = "clear_all"
    /\ Records # <<>>
    /\ visible_files = {}
    /\ last_drawn_line # None
    /\ ~crashed

\* ------------------------------------------------------------------ C24
\* C24: no reachable state makes a handler end with an unhandled error:
\* every handler completes or ends with one of its messages.
C24_NoUnhandledError == ~crashed

\* ------------------------------------------------------------------ C25
\* C25: the marker slot and the rendering surface agree in every reachable
\* state: last_drawn_line holds a line exactly when that line is on the
\* surface, and no other line is.
C25_MarkerOnSurface ==
    lines = (IF last_drawn_line = None THEN {} ELSE {last_drawn_line})

\* ------------------------------------------------------------------ C26
\* C26: selected_points is changed by picks only: next, previous, Clear All,
\* toggling a file and the exports leave it as it was, so that a pick which
\* finds one point pending, whatever was done since, completes the pair with
\* that point.
C26_PicksChangedByPicksOnly ==
    [][ /\ (pc = "idle" /\ lastOp' \in {"next", "previous", "clear_all", "toggle",
                                       "copy_detection_id", "copy_coordinates"})
               => selected_points' = selected_points
        /\ (PickStep /\ Len(selected_points) = 1) =>
               /\ selected_points' = Append(selected_points, selected_points'[2])
               /\ pc' = "z_box"
      ]_vars

\* Navigation has moved to another file while one pick was pending.
C26_Witness ==
    /\ lastOp \in {"next", "previous"}
    /\ report = <<>>
    /\ Len(selected_points) = 1
    /\ Cardinality(visible_files) = 1
    /\ ~crashed

\* ------------------------------------------------------------------ C22
\* C22: the division of Z at load time and the factor at measurement time
\* cancel: for two points of a loaded record with real heights z1 and z2,
\* picking their loaded positions reports the distance |z2 - z1|.
C22_ScaleRoundTrip ==
    sc_done => sc_shown * THOUSANDTHS_PER_TENTH = Abs(sc_z[2] - sc_z[1])

\* ------------------------------------------------------------------ C27
\* C27: in the current-index viewers, while the viewer is running,
\* 0 <= current_index < len(las_data) holds after any sequence of next,
\* previous, clicks on the list and resets, confirmed ones that load a folder
\* of fewer or more files included, and no handler indexes past las_data.
C27_CurrentIndexInRange ==
    ix_running =>
        /\ 0 <= ix_current_index
        /\ ix_current_index < Len(ix_las_data)
        /\ ~ix_crashed
        /\ ix_shown = ix_las_data[ix_current_index + 1].file

\* A confirmed reset at the last of MaxFiles files has loaded a folder of
\* one file.
C27_Witness ==
    /\ ix_variant = "v2"
    /\ ix_running
    /\ ix_op = "reset"
    /\ ix_report = <<"Reset Program">>
    /\ ix_before = <<MaxFiles, MaxFiles - 1>>
    /\ Len(ix_las_data) = 1
    /\ ix_current_index = 0

\* ------------------------------------------------------------------ C23
\* The index and the boundary message a navigation method leaves.
NavOutcome(x) == <<x.current_index, x.report, x.crashed>>

\* C23: run side by side from the same records with the one visible file
\* the record at current_index, the visible-set navigation of the
\* multi-selection viewer and the current-index navigation of the
\* single-selection viewers stay together over every sequence of next and
\* previous: the visible set is still exactly the record at current_index,
\* and one reports a boundary on the steps on which the other does. The
\* methods of qt-pipeline/main.py decide every step as those of
\* qt-pipeline/qt-pipeline/main.py do.
C23_NavigationsAgree ==
    /\ ~crashed
    /\ ix_running
    /\ ~ix_crashed
    /\ Records = ix_las_data
    /\ index_in_range(ix_las_data, ix_current_index)
    /\ visible_files = {py_item(ix_las_data, ix_current_index).file}
    /\ (report = <<"last">>) <=> (ix_report = <<"End">>)
    /\ (report = <<"first">>) <=> (ix_report = <<"Start">>)
    /\ NavOutcome(next_las_file_v1(IxCur)) = NavOutcome(next_las_file_v2(IxCur))
    /\ NavOutcome(previous_las_file_v1(IxCur))
           = NavOutcome(previous_las_file_v2(IxCur))

\* Both viewers stand at the last of MaxFiles records, reached by moves, and
\* both have just answered "next" with their boundary message.
C23_Witness ==
    /\ lastOp = "next"
    /\ ix_op = "next"
    /\ Len(Records) = MaxFiles
    /\ ix_current_index = MaxFiles - 1
    /\ navTrail[1].before # visible_files
    /\ report = <<"last">>
    /\ ix_report = <<"End">>
====
